---- MODULE Spec2Model ----
(***************************************************************************)
(* Model of the course dashboard backend.                                  *)
(*                                                                         *)
(*   src/app.py   the Flask endpoint /api/courses: api_courses reads the   *)
(*                request body, and the generator generate() walks the     *)
(*                identifiers one by one, consulting the process-wide      *)
(*                course_cache, calling fetch_course on a miss, and        *)
(*                yielding one NDJSON line per identifier and a final      *)
(*                "complete" line.                                         *)
(*                                                                         *)
(*   src/test.py  the stand-alone scraper: CourseScraper.fetch_courses     *)
(*                submits one _fetch_single_course task per identifier to  *)
(*                a thread pool and collects the results as the tasks      *)
(*                complete.                                                *)
(*                                                                         *)
(* The endpoint is served by several threads of one process, which share   *)
(* course_cache.  A thread is modelled by its position in the handler      *)
(* (pc) and the handler's locals.  dict.get and dict.__setitem__ are       *)
(* atomic under the interpreter lock; the network call of fetch_course     *)
(* lies between them and is a step of its own.                             *)
(***************************************************************************)
EXTENDS Integers, Sequences, FiniteSets, TLC

\* ---------------------------------------------------------------- bounds
\* Longest subject_codes list (or string) of a request.
MaxLen == 2
\* Number of distinct versions of a document the origin server may serve.
NumDocs == 2
\* Longest list of identifiers handed to CourseScraper.fetch_courses.
MaxScraperLen == 2
\* <em> elements of a document, and text pieces of one <em>
MaxEms == 2
MaxEmPieces == 2
\* rows of the learning-outcome table
MaxRows == 3
\* elements of a document from its first heading on
MaxNodes == 4

\* ---------------------------------------------------------------- constants
\* CourseConfig.max_workers (test.py:24).
max_workers == 4

\* ---------------------------------------------------------------- values
\* Course identifiers: one-character strings.
Ids == {"a", "b"}
\* An element of subject_codes that is a JSON array: as a Python list it is
\* unhashable, no dict takes it as a key.
ListCode == "['a']"
\* The elements a subject_codes list may hold.
Elems == Ids \cup {ListCode}
\* Threads of the server process that run api_courses.
Workers == {"t1", "t2"}
\* Contents the origin server may answer with for an identifier.
Docs == 1..NumDocs
\* Exceptions fetch_course may raise: transport (requests.get,
\* raise_for_status) or extraction (a helper of the parser).
Errors == {"HTTPError", "AttributeError"}
\* Python's None: the value of dict.get on an absent key.
None == [code |-> "None"]

\* All sequences over S of length at most n.
SeqUpTo(S, n) == UNION {[1..k -> S] : k \in 0..n}

\* JSON values the key subject_codes may hold.  A list is its elements,
\* strings or arrays; a
\* string is its characters, each a one-character string when iterated; a
\* number has neither length nor elements; "missing" is an absent key.
ListValue(items) == [kind |-> "list", items |-> items]
StringValue(items) == [kind |-> "string", items |-> items]
NumberValue == [kind |-> "number", items |-> <<>>]
MissingValue == [kind |-> "missing", items |-> <<>>]
CodeValues(n) ==
    {ListValue(s) : s \in SeqUpTo(Elems, n)}
        \cup {StringValue(s) : s \in SeqUpTo(Ids, n)}
        \cup {NumberValue, MissingValue}

\* Request bodies: a JSON object with (or without) the key subject_codes,
\* or a JSON value that is not an object (an array, a number, null).
ObjectBody(v) == [isObject |-> TRUE, subject_codes |-> v]
NonObjectBody == [isObject |-> FALSE, subject_codes |-> MissingValue]
Bodies(n) == {ObjectBody(v) : v \in CodeValues(n)} \cup {NonObjectBody}
NoBody == [isObject |-> FALSE, subject_codes |-> NumberValue]

\* ---------------------------------------------------------------- documents
\* A text is the sequence of its pieces: get_text(separator=' ', strip=True)
\* joins the pieces with one blank, so two texts are equal as strings exactly
\* when their piece sequences are equal (no piece holds a blank).  '' is <<>>.
EmptyString == <<>>
EmPieces == {"Requisite(s):", "Requisites", "48023"}
Ems == SeqUpTo(EmPieces, MaxEmPieces)

\* A row of a table: what row.find('th') and row.find('td') give, a cell
\* with its text or nothing.  The text of a <th> is a sequence of characters
\* and words, so that rstrip has something to strip.
Cell(text) == [found |-> TRUE, text |-> text]
NoTh == [found |-> FALSE, text |-> <<>>]
NoTd == [found |-> FALSE, text |-> ""]
ThTexts == {<<"1", ".">>, <<"2", ".">>, <<"2">>}
TdTexts == {"x", "y"}
Row(th, td) == [th |-> th, td |-> td]
SloRows ==
    {Row(th, td) : th \in {Cell(t) : t \in ThTexts} \cup {NoTh},
                   td \in {Cell(t) : t \in TdTexts} \cup {NoTd}}
\* soup.find('table', class_='SLOTable'): the rows of the table, or nothing
SloTable(rows) == [found |-> TRUE, rows |-> rows]
NoSloTable == [found |-> FALSE, rows |-> <<>>]

\* The elements find_all_next() walks over, in document order.
H3(text) == [name |-> "h3", text |-> text, class |-> <<>>, rows |-> <<>>]
H4(text) == [name |-> "h4", text |-> text, class |-> <<>>, rows |-> <<>>]
Table(class, rows) ==
    [name |-> "table", text |-> <<>>, class |-> class, rows |-> rows]
Para == [name |-> "p", text |-> <<>>, class |-> <<>>, rows |-> <<>>]
DetailRows ==
    {Row(Cell(<<"Type", ":">>), Cell("v1")),
     Row(Cell(<<"Type", ":">>), Cell("v2")),
     Row(Cell(<<"Weight", ":">>), Cell("v1")),
     Row(NoTh, Cell("v1"))}
Tables ==
    {Table(<<"assessmentTaskTable">>, <<>>)}
        \cup {Table(<<"assessmentTaskTable">>, <<r>>) : r \in DetailRows}
        \cup {Table(<<"otherTable">>, <<Row(Cell(<<"Type", ":">>), Cell("v1"))>>)}
Nodes ==
    {H3(<<"Assessment">>), H3(<<"Other">>), H4(<<"T1">>), H4(<<"T2">>), Para}
        \cup Tables

\* A parsed document, as far as the three extractors below read it.
Soup(ems, slo, nodes) == [ems |-> ems, slo |-> slo, nodes |-> nodes]
EmptySoup == Soup(<<>>, NoSloTable, <<>>)

\* ---------------------------------------------------------------- state
VARIABLES
    course_cache,  \* app.py:32   identifier -> record, None when absent
    pc,            \* per thread: position in api_courses / generate
    body,          \* per thread: request.get_json()
    codes,         \* per thread: data.get('subject_codes', [])
    idx,           \* per thread: position of `code` in the loop over codes
    course,        \* per thread: local `course` of generate
    results,       \* per thread: local `results`
    completed,     \* per thread: local `completed`
    total,         \* per thread: local `total`
    events,        \* per thread: the lines yielded so far (the stream)
    response,      \* per thread: what api_courses returned
    fetched,       \* per thread: identifiers passed to fetch_course so far
    attempted,     \* per thread: identifiers looked up in the cache so far
    sc_pc,         \* scraper: position of the thread running fetch_courses
    sc_codes,      \* scraper: the argument `codes` of fetch_courses
    sc_task,       \* scraper: per submitted task, queued / running / finished
    sc_future,     \* scraper: per finished task, the result of its future
    sc_yielded,    \* scraper: the futures as_completed has handed out, in order
    sc_courses,    \* scraper: local `courses` of fetch_courses
    sc_requests,   \* scraper: identifiers passed to session.get so far
    sc_max_workers,\* scraper: self.config.max_workers
    sc_sleeps,     \* scraper: calls of time.sleep(request_delay) so far
    ex_pc,         \* parser: ready / parsed
    ex_soup,       \* parser: the document handed to the extractors
    ex_record      \* parser: the record built from it, None before

appVars == <<course_cache, pc, body, codes, idx, course, results, completed,
             total, events, response, fetched, attempted>>
scraperVars == <<sc_pc, sc_codes, sc_task, sc_future, sc_yielded, sc_courses,
                 sc_requests, sc_max_workers, sc_sleeps>>
extractVars == <<ex_pc, ex_soup, ex_record>>
vars == <<appVars, scraperVars, extractVars>>

\* ---------------------------------------------------------------- python
\* dict.get(key): the entry, or None.
CacheGet(cache, code) == cache[code]

\* hash(key) is defined: dict.get(key) raises TypeError on a list.
Hashable(code) == code \in Ids

\* Truthiness of `course_cache.get(code)`: None is falsy, a record (a
\* non-empty dict) is truthy.
Truthy(v) == v # None

\* The dict fetch_course builds from the document it was served.
CourseData(code, doc) == [code |-> code, doc |-> doc]

\* data.get('subject_codes', []).
GetSubjectCodes(data) ==
    IF data.subject_codes.kind = "missing" THEN ListValue(<<>>)
    ELSE data.subject_codes

\* len(codes) is defined on lists and strings; on a number it raises.
HasLen(v) == v.kind \in {"list", "string"}
PyLen(v) == Len(v.items)

\* The lines generate() yields.
ProgressEvent(n, t, code) ==
    [type |-> "progress", completed |-> n, total |-> t, code |-> code]
ProgressErrorEvent(n, t, code, e) ==
    [type |-> "progress", completed |-> n, total |-> t, code |-> code,
     error |-> e]
CompleteEvent(res) == [type |-> "complete", results |-> res]

\* The identifier the loop of a thread is at.
CurCode(w) == codes[w].items[idx[w]]

\* ---------------------------------------------------------------- init
Init ==
    /\ course_cache = [c \in Ids |-> None]
    /\ pc = [w \in Workers |-> "idle"]
    /\ body = [w \in Workers |-> NoBody]
    /\ codes = [w \in Workers |-> NumberValue]
    /\ idx = [w \in Workers |-> 0]
    /\ course = [w \in Workers |-> None]
    /\ results = [w \in Workers |-> <<>>]
    /\ completed = [w \in Workers |-> 0]
    /\ total = [w \in Workers |-> 0]
    /\ events = [w \in Workers |-> <<>>]
    /\ response = [w \in Workers |-> "none"]
    /\ fetched = [w \in Workers |-> <<>>]
    /\ attempted = [w \in Workers |-> <<>>]
    /\ sc_pc = "ready"
    /\ sc_codes = <<>>
    /\ sc_task = <<>>
    /\ sc_future = <<>>
    /\ sc_yielded = <<>>
    /\ sc_courses = <<>>
    /\ sc_requests = <<>>
    /\ sc_max_workers = max_workers
    /\ sc_sleeps = 0
    /\ ex_pc = "ready"
    /\ ex_soup = EmptySoup
    /\ ex_record = None

\* ---------------------------------------------------------------- api_courses
\* app.py:174-179, 215-219.  data = request.get_json(); data.get(...) raises
\* on a body that is not an object, the handler's except turns that into a
\* single 500 error response.  Otherwise the handler returns the streaming
\* response at once: the body of generate() has not run yet.
api_courses(w, b) ==
    /\ pc[w] = "idle"
    /\ body' = [body EXCEPT ![w] = b]
    /\ IF b.isObject
       THEN /\ codes' = [codes EXCEPT ![w] = GetSubjectCodes(b)]
            /\ response' = [response EXCEPT ![w] = "stream"]
            /\ pc' = [pc EXCEPT ![w] = "start"]
       ELSE /\ codes' = codes
            /\ response' = [response EXCEPT ![w] = "error500"]
            /\ pc' = [pc EXCEPT ![w] = "responded"]
    /\ UNCHANGED <<course_cache, idx, course, results, completed, total,
                   events, fetched, attempted>>
    /\ UNCHANGED <<scraperVars, extractVars>>

\* ---------------------------------------------------------------- generate
\* Mutant of NextCode: the complete event is yielded inside the loop, after
\* every identifier.
NextCode_complete_each(w, evs, res) ==
    IF idx[w] < PyLen(codes[w])
    THEN /\ idx' = [idx EXCEPT ![w] = idx[w] + 1]
         /\ events' = [events EXCEPT ![w] = Append(evs, CompleteEvent(res))]
         /\ pc' = [pc EXCEPT ![w] = "lookup"]
    ELSE /\ idx' = idx
         /\ events' = [events EXCEPT ![w] = Append(evs, CompleteEvent(res))]
         /\ pc' = [pc EXCEPT ![w] = "complete"]

\* Mutant of NextCode: the lines of the loop are held back, the consumer
\* gets nothing until the loop is over.
NextCode_withholds(w, evs, res) ==
    IF idx[w] < PyLen(codes[w])
    THEN /\ idx' = [idx EXCEPT ![w] = idx[w] + 1]
         /\ events' = events
         /\ pc' = [pc EXCEPT ![w] = "lookup"]
    ELSE /\ idx' = idx
         /\ events' = events
         /\ pc' = [pc EXCEPT ![w] = "complete"]

\* The end of one loop iteration (app.py:193, 202, 185): the progress line
\* is yielded and the generator is suspended there.  Resumed, the loop takes
\* the next identifier; after the last one it is left for the yield of the
\* complete line.  evs and res are the stream and the results list as the
\* iteration leaves them.
NextCode(w, evs, res) ==
    IF idx[w] < PyLen(codes[w])
    THEN /\ idx' = [idx EXCEPT ![w] = idx[w] + 1]
         /\ events' = [events EXCEPT ![w] = evs]
         /\ pc' = [pc EXCEPT ![w] = "lookup"]
    ELSE /\ idx' = idx
         /\ events' = [events EXCEPT ![w] = evs]
         /\ pc' = [pc EXCEPT ![w] = "complete"]

\* app.py:181-185.  The first next() on the generator: results = [],
\* total = len(codes), completed = 0, and the loop is entered.  len() of a
\* number raises TypeError outside every try of generate: the generator dies
\* and the stream ends with no line.
generate_start(w) ==
    /\ pc[w] = "start"
    /\ IF HasLen(codes[w])
       THEN /\ total' = [total EXCEPT ![w] = PyLen(codes[w])]
            /\ IF PyLen(codes[w]) = 0
               THEN /\ events' = [events EXCEPT ![w] = <<CompleteEvent(<<>>)>>]
                    /\ pc' = [pc EXCEPT ![w] = "done"]
                    /\ idx' = idx
               ELSE /\ idx' = [idx EXCEPT ![w] = 1]
                    /\ pc' = [pc EXCEPT ![w] = "lookup"]
                    /\ events' = events
       ELSE /\ pc' = [pc EXCEPT ![w] = "aborted"]
            /\ UNCHANGED <<total, events, idx>>
    /\ UNCHANGED <<course_cache, body, codes, course, results, completed,
                   response, fetched, attempted>>
    /\ UNCHANGED <<scraperVars, extractVars>>

\* Mutant of CacheHit: the cache is never consulted, every identifier is
\* fetched.
CacheHit_never(cached) == FALSE

\* app.py:188, left operand of `or`: a truthy cache entry is the course and
\* fetch_course is not evaluated.
CacheHit(cached) == Truthy(cached)

\* app.py:188.  course_cache.get(code): on a hit the entry becomes `course`,
\* on a miss fetch_course(code) is called next.
cache_lookup(w) ==
    /\ pc[w] = "lookup"
    /\ Hashable(CurCode(w))
    /\ LET cached == CacheGet(course_cache, CurCode(w)) IN
       IF CacheHit(cached)
       THEN /\ course' = [course EXCEPT ![w] = cached]
            /\ pc' = [pc EXCEPT ![w] = "store"]
       ELSE /\ course' = course
            /\ pc' = [pc EXCEPT ![w] = "fetch"]
    /\ attempted' = [attempted EXCEPT ![w] = Append(attempted[w], CurCode(w))]
    /\ UNCHANGED <<course_cache, body, codes, idx, results, completed, total,
                   events, response, fetched>>
    /\ UNCHANGED <<scraperVars, extractVars>>

\* app.py:188, 200-208.  course_cache.get(code) raises TypeError on an
\* element that is a list: fetch_course is not called, the except of generate
\* yields a progress line with the error text, and the loop goes on.
cache_lookup_raises(w) ==
    /\ pc[w] = "lookup"
    /\ ~Hashable(CurCode(w))
    /\ attempted' = [attempted EXCEPT ![w] = Append(attempted[w], CurCode(w))]
    /\ NextCode(w,
                Append(events[w],
                       ProgressErrorEvent(completed[w], total[w], CurCode(w),
                                          "TypeError")),
                results[w])
    /\ UNCHANGED <<course_cache, body, codes, course, results, completed,
                   total, response, fetched>>
    /\ UNCHANGED <<scraperVars, extractVars>>

\* app.py:34-54, 188.  fetch_course(code) returns: the GET succeeded and the
\* document served (version doc) was parsed into a record.
fetch_course_ok(w, doc) ==
    /\ pc[w] = "fetch"
    /\ fetched' = [fetched EXCEPT ![w] = Append(fetched[w], CurCode(w))]
    /\ course' = [course EXCEPT ![w] = CourseData(CurCode(w), doc)]
    /\ pc' = [pc EXCEPT ![w] = "store"]
    /\ UNCHANGED <<course_cache, body, codes, idx, results, completed, total,
                   events, response, attempted>>
    /\ UNCHANGED <<scraperVars, extractVars>>

\* app.py:189-198.  course_cache[code] = course; results.append(course);
\* completed += 1; the progress line is yielded.
store_course(w) ==
    /\ pc[w] = "store"
    /\ course_cache' = [course_cache EXCEPT ![CurCode(w)] = course[w]]
    /\ results' = [results EXCEPT ![w] = Append(results[w], course[w])]
    /\ completed' = [completed EXCEPT ![w] = completed[w] + 1]
    /\ NextCode(w,
                Append(events[w],
                       ProgressEvent(completed[w] + 1, total[w], CurCode(w))),
                Append(results[w], course[w]))
    /\ course' = [course EXCEPT ![w] = None]
    /\ UNCHANGED <<body, codes, total, response, fetched, attempted>>
    /\ UNCHANGED <<scraperVars, extractVars>>

\* Mutant of fetch_course_raises: generate has no except, the exception
\* leaves the generator and the stream dies.
fetch_course_raises_aborts(w, e) ==
    /\ pc[w] = "fetch"
    /\ fetched' = [fetched EXCEPT ![w] = Append(fetched[w], CurCode(w))]
    /\ pc' = [pc EXCEPT ![w] = "aborted"]
    /\ UNCHANGED <<course_cache, body, codes, idx, course, results, completed,
                   total, events, response, attempted>>
    /\ UNCHANGED <<scraperVars, extractVars>>

\* Mutant of fetch_course_raises: the failure is remembered in the cache.
fetch_course_raises_caches(w, e) ==
    /\ pc[w] = "fetch"
    /\ fetched' = [fetched EXCEPT ![w] = Append(fetched[w], CurCode(w))]
    /\ course_cache' = [course_cache EXCEPT
                            ![CurCode(w)] = [code |-> CurCode(w), error |-> e]]
    /\ NextCode(w,
                Append(events[w],
                       ProgressErrorEvent(completed[w], total[w], CurCode(w), e)),
                results[w])
    /\ UNCHANGED <<body, codes, course, results, completed, total, response,
                   attempted>>
    /\ UNCHANGED <<scraperVars, extractVars>>

\* Mutant of fetch_course_raises: the except only logs, no line is yielded
\* for a failed identifier.
fetch_course_raises_silent(w, e) ==
    /\ pc[w] = "fetch"
    /\ fetched' = [fetched EXCEPT ![w] = Append(fetched[w], CurCode(w))]
    /\ NextCode(w, events[w], results[w])
    /\ UNCHANGED <<course_cache, body, codes, course, results, completed,
                   total, response, attempted>>
    /\ UNCHANGED <<scraperVars, extractVars>>

\* Mutant of fetch_course_raises: the first failure of a request is retried,
\* fetch_course is called again for the same identifier.
fetch_course_raises_retries(w, e) ==
    /\ pc[w] = "fetch"
    /\ fetched' = [fetched EXCEPT ![w] = Append(fetched[w], CurCode(w))]
    /\ IF Len(fetched[w]) < Len(attempted[w])
       THEN UNCHANGED <<idx, events, pc>>
       ELSE NextCode(w,
                     Append(events[w],
                            ProgressErrorEvent(completed[w], total[w],
                                               CurCode(w), e)),
                     results[w])
    /\ UNCHANGED <<course_cache, body, codes, course, results, completed,
                   total, response, attempted>>
    /\ UNCHANGED <<scraperVars, extractVars>>

\* Mutant of fetch_course_raises: completed counts the identifiers processed,
\* a failure increments it too.
fetch_course_raises_counts(w, e) ==
    /\ pc[w] = "fetch"
    /\ fetched' = [fetched EXCEPT ![w] = Append(fetched[w], CurCode(w))]
    /\ completed' = [completed EXCEPT ![w] = completed[w] + 1]
    /\ NextCode(w,
                Append(events[w],
                       ProgressErrorEvent(completed[w] + 1, total[w],
                                          CurCode(w), e)),
                results[w])
    /\ UNCHANGED <<course_cache, body, codes, course, results, total,
                   response, attempted>>
    /\ UNCHANGED <<scraperVars, extractVars>>

\* app.py:55-57, 200-208.  fetch_course(code) raises e (transport or
\* extraction); the except of generate yields a progress line with the error
\* text, and the loop goes on.  Nothing is appended to results and the cache
\* is not written.
fetch_course_raises(w, e) ==
    /\ pc[w] = "fetch"
    /\ fetched' = [fetched EXCEPT ![w] = Append(fetched[w], CurCode(w))]
    /\ NextCode(w,
                Append(events[w],
                       ProgressErrorEvent(completed[w], total[w], CurCode(w), e)),
                results[w])
    /\ UNCHANGED <<course_cache, body, codes, course, results, completed,
                   total, response, attempted>>
    /\ UNCHANGED <<scraperVars, extractVars>>

\* app.py:210-213.  The generator is resumed after the last progress line:
\* the loop is over and the complete line is yielded.
yield_complete(w) ==
    /\ pc[w] = "complete"
    /\ events' = [events EXCEPT ![w] = Append(events[w], CompleteEvent(results[w]))]
    /\ pc' = [pc EXCEPT ![w] = "done"]
    /\ UNCHANGED <<course_cache, body, codes, idx, course, results, completed,
                   total, response, fetched, attempted>>
    /\ UNCHANGED <<scraperVars, extractVars>>

\* The response is over (the stream was read to its end, died, or the error
\* response was sent): the thread forgets the request and serves the next.
finish(w) ==
    /\ pc[w] \in {"done", "aborted", "responded"}
    /\ pc' = [pc EXCEPT ![w] = "idle"]
    /\ body' = [body EXCEPT ![w] = NoBody]
    /\ codes' = [codes EXCEPT ![w] = NumberValue]
    /\ idx' = [idx EXCEPT ![w] = 0]
    /\ course' = [course EXCEPT ![w] = None]
    /\ results' = [results EXCEPT ![w] = <<>>]
    /\ completed' = [completed EXCEPT ![w] = 0]
    /\ total' = [total EXCEPT ![w] = 0]
    /\ events' = [events EXCEPT ![w] = <<>>]
    /\ response' = [response EXCEPT ![w] = "none"]
    /\ fetched' = [fetched EXCEPT ![w] = <<>>]
    /\ attempted' = [attempted EXCEPT ![w] = <<>>]
    /\ UNCHANGED course_cache
    /\ UNCHANGED <<scraperVars, extractVars>>

\* ---------------------------------------------------------------- scraper
\* The tasks of the pool that are running in a worker thread.
Running == {i \in 1..Len(sc_task) : sc_task[i] = "running"}
\* The futures that are finished and that as_completed has not handed out.
Collectable ==
    {i \in 1..Len(sc_task) :
        sc_task[i] = "finished" /\ \A k \in 1..Len(sc_yielded) : sc_yielded[k] # i}

\* test.py:18-29.  CourseScraper(CourseConfig(max_workers=k)): the scraper
\* is built with a pool size of the caller's choice, 4 when none is given.
configure(k) ==
    /\ sc_pc = "ready"
    /\ sc_max_workers' = k
    /\ UNCHANGED <<sc_pc, sc_codes, sc_task, sc_future, sc_yielded, sc_courses,
                   sc_requests, sc_sleeps>>
    /\ UNCHANGED <<appVars, extractVars>>

\* test.py:31-34.  fetch_courses(cs): courses = [], the pool is created;
\* no task is submitted yet.
fetch_courses(cs) ==
    /\ sc_pc = "ready"
    /\ sc_codes' = cs
    /\ sc_task' = <<>>
    /\ sc_future' = <<>>
    /\ sc_yielded' = <<>>
    /\ sc_courses' = <<>>
    /\ sc_requests' = <<>>
    /\ sc_sleeps' = 0
    /\ sc_pc' = "submit"
    /\ UNCHANGED sc_max_workers
    /\ UNCHANGED <<appVars, extractVars>>

\* test.py:35-38.  One executor.submit of the dict comprehension: the task of
\* the next identifier is put on the pool's queue.  The pool's threads run
\* the tasks submitted before while the comprehension goes on.
submit ==
    /\ sc_pc = "submit"
    /\ Len(sc_task) < Len(sc_codes)
    /\ sc_task' = Append(sc_task, "queued")
    /\ sc_future' = Append(sc_future, None)
    /\ UNCHANGED <<sc_pc, sc_codes, sc_yielded, sc_courses, sc_requests,
                   sc_max_workers, sc_sleeps>>
    /\ UNCHANGED <<appVars, extractVars>>

\* test.py:40.  Every identifier has its task: the comprehension is over and
\* the loop over as_completed begins.
as_completed ==
    /\ sc_pc = "submit"
    /\ Len(sc_task) = Len(sc_codes)
    /\ sc_pc' = "collect"
    /\ UNCHANGED <<sc_codes, sc_task, sc_future, sc_yielded, sc_courses,
                   sc_requests, sc_max_workers, sc_sleeps>>
    /\ UNCHANGED <<appVars, extractVars>>

\* Mutant of task_start: the delay is a barrier, no task is started while
\* the collecting thread sleeps.
task_start_barrier(i) ==
    /\ sc_pc \in {"submit", "collect"}
    /\ i \in 1..Len(sc_task)
    /\ sc_task[i] = "queued"
    /\ \A j \in 1..(i - 1) : sc_task[j] # "queued"
    /\ Cardinality(Running) < sc_max_workers
    /\ sc_task' = [sc_task EXCEPT ![i] = "running"]
    /\ UNCHANGED <<sc_pc, sc_codes, sc_future, sc_yielded, sc_courses,
                   sc_requests, sc_max_workers, sc_sleeps>>
    /\ UNCHANGED <<appVars, extractVars>>

\* Mutant of task_start: the pool starts a thread for every task submitted,
\* whatever max_workers says.
task_start_unbounded(i) ==
    /\ sc_pc \in {"submit", "collect", "sleep"}
    /\ i \in 1..Len(sc_task)
    /\ sc_task[i] = "queued"
    /\ \A j \in 1..(i - 1) : sc_task[j] # "queued"
    /\ sc_task' = [sc_task EXCEPT ![i] = "running"]
    /\ UNCHANGED <<sc_pc, sc_codes, sc_future, sc_yielded, sc_courses,
                   sc_requests, sc_max_workers, sc_sleeps>>
    /\ UNCHANGED <<appVars, extractVars>>

\* ThreadPoolExecutor (test.py:34-36): a worker thread takes the oldest
\* queued task, as soon as it is submitted; at most self.config.max_workers
\* threads exist.
task_start(i) ==
    /\ sc_pc \in {"submit", "collect", "sleep"}
    /\ i \in 1..Len(sc_task)
    /\ sc_task[i] = "queued"
    /\ \A j \in 1..(i - 1) : sc_task[j] # "queued"
    /\ Cardinality(Running) < sc_max_workers
    /\ sc_task' = [sc_task EXCEPT ![i] = "running"]
    /\ UNCHANGED <<sc_pc, sc_codes, sc_future, sc_yielded, sc_courses,
                   sc_requests, sc_max_workers, sc_sleeps>>
    /\ UNCHANGED <<appVars, extractVars>>

\* test.py:53-61.  _fetch_single_course(code): the GET succeeded and the
\* document served was parsed; the record is the future's result.
fetch_single_course_ok(i, doc) ==
    /\ i \in 1..Len(sc_task)
    /\ sc_task[i] = "running"
    /\ sc_requests' = Append(sc_requests, sc_codes[i])
    /\ sc_future' = [sc_future EXCEPT ![i] = CourseData(sc_codes[i], doc)]
    /\ sc_task' = [sc_task EXCEPT ![i] = "finished"]
    /\ UNCHANGED <<sc_pc, sc_codes, sc_yielded, sc_courses, sc_max_workers,
                   sc_sleeps>>
    /\ UNCHANGED <<appVars, extractVars>>

\* test.py:62-64.  _fetch_single_course(code): the GET or the parser raised;
\* the except logs and the future's result is None.
fetch_single_course_raises(i, e) ==
    /\ i \in 1..Len(sc_task)
    /\ sc_task[i] = "running"
    /\ sc_requests' = Append(sc_requests, sc_codes[i])
    /\ sc_future' = [sc_future EXCEPT ![i] = None]
    /\ sc_task' = [sc_task EXCEPT ![i] = "finished"]
    /\ UNCHANGED <<sc_pc, sc_codes, sc_yielded, sc_courses, sc_max_workers,
                   sc_sleeps>>
    /\ UNCHANGED <<appVars, extractVars>>

\* test.py:40-47.  as_completed hands out a finished future; its result is
\* appended to courses when it is truthy (a record, not None); then the
\* collecting thread sleeps request_delay.
collect(i) ==
    /\ sc_pc = "collect"
    /\ i \in Collectable
    /\ sc_yielded' = Append(sc_yielded, i)
    /\ sc_courses' = IF Truthy(sc_future[i]) THEN Append(sc_courses, sc_future[i])
                     ELSE sc_courses
    /\ sc_sleeps' = sc_sleeps + 1
    /\ sc_pc' = "sleep"
    /\ UNCHANGED <<sc_codes, sc_task, sc_future, sc_requests, sc_max_workers>>
    /\ UNCHANGED <<appVars, extractVars>>

\* test.py:47, 40, 50-51.  time.sleep returns: the loop waits for the next
\* future, or, every future handed out, the pool is shut down and courses
\* is returned.
wake ==
    /\ sc_pc = "sleep"
    /\ sc_pc' = IF Len(sc_yielded) = Len(sc_task) THEN "returned" ELSE "collect"
    /\ UNCHANGED <<sc_codes, sc_task, sc_future, sc_yielded, sc_courses,
                   sc_requests, sc_max_workers, sc_sleeps>>
    /\ UNCHANGED <<appVars, extractVars>>

\* test.py:40, 50-51.  fetch_courses of an empty list: as_completed has
\* nothing to hand out and courses is returned empty.
return_empty ==
    /\ sc_pc = "collect"
    /\ Len(sc_task) = 0
    /\ sc_pc' = "returned"
    /\ UNCHANGED <<sc_codes, sc_task, sc_future, sc_yielded, sc_courses,
                   sc_requests, sc_max_workers, sc_sleeps>>
    /\ UNCHANGED <<appVars, extractVars>>

\* The caller drops the list; the scraper may be called again.
scraper_reset ==
    /\ sc_pc = "returned"
    /\ sc_pc' = "ready"
    /\ sc_codes' = <<>>
    /\ sc_task' = <<>>
    /\ sc_future' = <<>>
    /\ sc_yielded' = <<>>
    /\ sc_courses' = <<>>
    /\ sc_requests' = <<>>
    /\ sc_sleeps' = 0
    /\ UNCHANGED sc_max_workers
    /\ UNCHANGED <<appVars, extractVars>>

\* ---------------------------------------------------------------- extractors
\* str.rstrip(ch): the text without its trailing run of ch.
RStrip(s, ch) ==
    LET n == CHOOSE n \in 0..Len(s) :
                 /\ n = 0 \/ s[n] # ch
                 /\ \A k \in (n + 1)..Len(s) : s[k] = ch
    IN  SubSeq(s, 1, n)

\* str.replace(old, ''): every piece that is `old` becomes the empty piece
\* (the blanks around it stay).
Replace(s, old) == [k \in 1..Len(s) |-> IF s[k] = old THEN "" ELSE s[k]]

\* str.strip(): blanks at both ends go, that is the empty pieces there.
Strip(s) ==
    LET full == {k \in 1..Len(s) : s[k] # ""}
    IN  IF full = {} THEN EmptyString
        ELSE SubSeq(s, CHOOSE a \in full : \A k \in full : a <= k,
                       CHOOSE b \in full : \A k \in full : b >= k)

\* txt.startswith('Requisite'), txt the pieces of an <em> joined without
\* separator: decided by the first piece.
StartsWithRequisite(txt) ==
    txt # <<>> /\ Head(txt) \in {"Requisite(s):", "Requisites"}

\* Mutant of _extract_requisites: a document without requisite marker gets
\* the placeholder "None specified".
_extract_requisites_placeholder(soup) ==
    LET hits == {i \in 1..Len(soup.ems) : StartsWithRequisite(soup.ems[i])}
    IN  IF hits = {} THEN <<"None", "specified">>
        ELSE LET i == CHOOSE i \in hits : \A j \in hits : i <= j
             IN  Strip(Replace(soup.ems[i], "Requisite(s):"))

\* app.py:73-79, test.py:100-106.  The first <em> with text that starts with
\* 'Requisite' decides; '' when there is none.
_extract_requisites(soup) ==
    LET hits == {i \in 1..Len(soup.ems) : StartsWithRequisite(soup.ems[i])}
    IN  IF hits = {} THEN EmptyString
        ELSE LET i == CHOOSE i \in hits : \A j \in hits : i <= j
             IN  Strip(Replace(soup.ems[i], "Requisite(s):"))

\* Mutant of AddSeen: the text of an outcome is not remembered.
AddSeen_forgets(seen_outcomes, outcome_text) == seen_outcomes

\* app.py:117  seen_outcomes.add(outcome_text)
AddSeen(seen_outcomes, outcome_text) == seen_outcomes \cup {outcome_text}

\* app.py:109-117  the loop over the rows from row i on
RECURSIVE OutcomeRows(_, _, _, _)
OutcomeRows(rows, i, outcomes, seen_outcomes) ==
    IF i > Len(rows) THEN outcomes
    ELSE LET row == rows[i]
             outcome_text == row.td.text
         IN  IF row.th.found /\ row.td.found /\ outcome_text \notin seen_outcomes
             THEN OutcomeRows(rows, i + 1,
                              Append(outcomes,
                                     [no |-> RStrip(row.th.text, "."),
                                      text |-> outcome_text]),
                              AddSeen(seen_outcomes, outcome_text))
             ELSE OutcomeRows(rows, i + 1, outcomes, seen_outcomes)

\* app.py:103-119, test.py:133-149
_extract_learning_outcomes(soup) ==
    IF ~soup.slo.found THEN <<>> ELSE OutcomeRows(soup.slo.rows, 1, <<>>, {})

\* app.py:148-150  the first h3 whose text contains the heading; 0 for None
_find_section(soup, heading) ==
    LET hits == {i \in 1..Len(soup.nodes) :
                     /\ soup.nodes[i].name = "h3"
                     /\ \E k \in 1..Len(soup.nodes[i].text) :
                            soup.nodes[i].text[k] = heading}
    IN  IF hits = {} THEN 0 ELSE CHOOSE i \in hits : \A j \in hits : i <= j

\* Mutant of CloseTask: a task without details is not emitted.
CloseTask_with_details(assessment, current_task) ==
    IF current_task # None /\ DOMAIN current_task.details # {}
    THEN Append(assessment, current_task)
    ELSE assessment

\* app.py:133-134, 143-144  if current_task: assessment.append(current_task)
CloseTask(assessment, current_task) ==
    IF current_task # None THEN Append(assessment, current_task) ELSE assessment

\* app.py:138-141  the rows of a table written into the details of a task,
\* a later row overwriting an earlier one with the same key
RECURSIVE AddDetails(_, _, _)
AddDetails(details, rows, i) ==
    IF i > Len(rows) THEN details
    ELSE LET row == rows[i]
             key == RStrip(row.th.text, ":")
         IN  IF row.th.found /\ row.td.found
             THEN AddDetails([k \in DOMAIN details \cup {key} |->
                                  IF k = key THEN row.td.text ELSE details[k]],
                             rows, i + 1)
             ELSE AddDetails(details, rows, i + 1)

RECURSIVE ScanAssessment(_, _, _, _)
\* Mutant of ScanAssessment: a following h3 does not end the scan.
ScanAssessment_past_h3(nodes, i, current_task, assessment) ==
    IF i > Len(nodes) THEN CloseTask(assessment, current_task)
    ELSE LET node == nodes[i]
         IN  IF node.name = "h4"
             THEN ScanAssessment(nodes, i + 1,
                                 [title |-> node.text, details |-> <<>>],
                                 CloseTask(assessment, current_task))
             ELSE IF /\ current_task # None
                     /\ node.name = "table"
                     /\ \E k \in 1..Len(node.class) :
                            node.class[k] = "assessmentTaskTable"
             THEN ScanAssessment(nodes, i + 1,
                                 [current_task EXCEPT
                                      !.details = AddDetails(@, node.rows, 1)],
                                 assessment)
             ELSE ScanAssessment(nodes, i + 1, current_task, assessment)

\* app.py:128-144  the loop over find_all_next() from node i on, and the
\* emission of the open task after it
ScanAssessment(nodes, i, current_task, assessment) ==
    IF i > Len(nodes) THEN CloseTask(assessment, current_task)
    ELSE LET node == nodes[i]
         IN  IF node.name = "h3" THEN CloseTask(assessment, current_task)
             ELSE IF node.name = "h4"
             THEN ScanAssessment(nodes, i + 1,
                                 [title |-> node.text, details |-> <<>>],
                                 CloseTask(assessment, current_task))
             ELSE IF /\ current_task # None
                     /\ node.name = "table"
                     /\ \E k \in 1..Len(node.class) :
                            node.class[k] = "assessmentTaskTable"
             THEN ScanAssessment(nodes, i + 1,
                                 [current_task EXCEPT
                                      !.details = AddDetails(@, node.rows, 1)],
                                 assessment)
             ELSE ScanAssessment(nodes, i + 1, current_task, assessment)

\* app.py:121-146, test.py:151-176
_extract_assessment(soup) ==
    LET assess_section == _find_section(soup, "Assessment")
    IN  IF assess_section = 0 THEN <<>>
        ELSE ScanAssessment(soup.nodes, assess_section + 1, None, <<>>)

\* app.py:44-54, test.py:66-76.  title, credit_points and overview are read
\* from parts of the document that Soup does not carry.
_parse_course(soup, code) ==
    [code |-> code,
     requisites |-> _extract_requisites(soup),
     learning_outcomes |-> _extract_learning_outcomes(soup),
     assessment |-> _extract_assessment(soup)]

\* app.py:41-54.  A fetched document is parsed into a record.  The
\* extractors read disjoint parts of a document: the documents vary one part
\* at a time.
parse_course(code) ==
    /\ ex_pc = "ready"
    /\ \/ \E k \in 0..MaxEms : \E ems \in [1..k -> Ems] :
              ex_soup' = Soup(ems, NoSloTable, <<>>)
       \/ \E k \in 0..MaxRows : \E rows \in [1..k -> SloRows] :
              ex_soup' = Soup(<<>>, SloTable(rows), <<>>)
       \/ \E k \in 0..MaxNodes : \E nodes \in [1..k -> Nodes] :
              ex_soup' = Soup(<<>>, NoSloTable, nodes)
    /\ ex_record' = _parse_course(ex_soup', code)
    /\ ex_pc' = "parsed"
    /\ UNCHANGED <<appVars, scraperVars>>

\* The record is handed on; the parser is ready for the next document.
parse_reset ==
    /\ ex_pc = "parsed"
    /\ ex_pc' = "ready"
    /\ ex_soup' = EmptySoup
    /\ ex_record' = None
    /\ UNCHANGED <<appVars, scraperVars>>

\* ---------------------------------------------------------------- specs
\* One step of thread w other than accepting a request.
Serve(w) ==
    \/ generate_start(w)
    \/ cache_lookup(w)
    \/ cache_lookup_raises(w)
    \/ \E doc \in Docs : fetch_course_ok(w, doc)
    \/ store_course(w)
    \/ \E e \in Errors : fetch_course_raises(w, e)
    \/ yield_complete(w)
    \/ finish(w)

\* Requests arrive at any time: every idle thread may accept one while the
\* others are serving theirs, and the threads' steps interleave.
Next ==
    \/ \E w \in Workers : \E b \in Bodies(MaxLen) : api_courses(w, b)
    \/ \E w \in Workers : Serve(w)

Spec == Init /\ [][Next]_vars

\* The scraper: one thread runs fetch_courses, the pool's threads run the
\* tasks.
NextScraper ==
    \/ \E k \in 1..max_workers : configure(k)
    \/ \E cs \in SeqUpTo(Ids, MaxScraperLen) :
          fetch_courses(cs)
    \/ submit
    \/ as_completed
    \/ \E i \in 1..MaxScraperLen : task_start(i)
    \/ \E i \in 1..MaxScraperLen : \E doc \in Docs :
          fetch_single_course_ok(i, doc)
    \/ \E i \in 1..MaxScraperLen : \E e \in Errors :
          fetch_single_course_raises(i, e)
    \/ \E i \in 1..MaxScraperLen : collect(i)
    \/ wake
    \/ return_empty
    \/ scraper_reset

SpecScraper == Init /\ [][NextScraper]_vars

\* A running task ends: _fetch_single_course returns a record or None.
task_finish(i) ==
    \/ \E doc \in Docs : fetch_single_course_ok(i, doc)
    \/ \E e \in Errors : fetch_single_course_raises(i, e)

\* The scraper with the scheduling the thread pool gives: an idle worker
\* thread takes the oldest queued task, and the GET of a running task comes
\* back, with a document or with an error.
FairSpecScraper ==
    /\ SpecScraper
    /\ \A i \in 1..MaxScraperLen : WF_vars(task_start(i))
    /\ \A i \in 1..MaxScraperLen : WF_vars(task_finish(i))

\* Documents are parsed one after the other.
NextExtract ==
    \/ \E code \in Ids : parse_course(code)
    \/ parse_reset

SpecExtract == Init /\ [][NextExtract]_vars

\* ---------------------------------------------------------------- claims
\* A progress line that reports a failure.
HasError(ev) == "error" \in DOMAIN ev
\* A thread whose generator has entered its loop over a list of identifiers.
Streaming(w) == pc[w] \in {"lookup", "fetch", "store", "complete", "done"}
\* The results list carried by the complete event of a finished stream.
FinalResults(w) == events[w][Len(events[w])].results
\* A request body the endpoint is meant to reject: not an object, or its
\* subject_codes is a string or a number.
Malformed(b) == ~b.isObject \/ b.subject_codes.kind \in {"string", "number"}
\* The number of times x occurs in the sequence s.
Count(s, x) == Cardinality({i \in 1..Len(s) : s[i] = x})

\* C1: the results of the complete event have one element per input
\* identifier, the i-th carrying the i-th identifier.
C1_ResultsMatchInput ==
    \A w \in Workers :
        (pc[w] = "done" /\ codes[w].kind = "list") =>
            /\ Len(FinalResults(w)) = PyLen(codes[w])
            /\ \A i \in 1..Len(FinalResults(w)) :
                   i <= PyLen(codes[w]) =>
                       FinalResults(w)[i].code = codes[w].items[i]

\* C1, for CourseScraper.fetch_courses: the returned list has one element per
\* input identifier, the i-th carrying the i-th identifier.
C1_ScraperResultsMatchInput ==
    sc_pc = "returned" =>
        /\ Len(sc_courses) = Len(sc_codes)
        /\ \A i \in 1..Len(sc_courses) :
               i <= Len(sc_codes) => sc_courses[i].code = sc_codes[i]

\* C2: a failure for one identifier does not abort the batch: once the loop
\* over the identifiers is entered the generator never dies, while it is not
\* finished it has a step to take, and when it is finished every identifier,
\* those after a failed one included, was attempted and the stream ends with
\* the complete event.
C2_FailureDoesNotAbort ==
    \A w \in Workers :
        (response[w] = "stream" /\ HasLen(codes[w]) /\ pc[w] # "start") =>
            /\ Streaming(w)
            /\ pc[w] # "done" => ENABLED Serve(w)
            /\ pc[w] = "done" =>
                   /\ attempted[w] = codes[w].items
                   /\ events[w][Len(events[w])].type = "complete"
            /\ \A i \in 1..Len(events[w]) :
                   HasError(events[w][i]) =>
                       /\ Len(attempted[w]) >= i
                       /\ pc[w] = "done" =>
                              \A j \in (i + 1)..PyLen(codes[w]) :
                                  attempted[w][j] = codes[w].items[j]

\* C2 witness: a finished stream whose first identifier failed and whose later
\* identifiers were attempted all the same.
C2_Witness ==
    \E w \in Workers :
        /\ pc[w] = "done"
        /\ PyLen(codes[w]) >= 2
        /\ HasError(events[w][1])
        /\ attempted[w] = codes[w].items
        /\ events[w][Len(events[w])].type = "complete"

\* C2, for CourseScraper.fetch_courses: a task that fails does not stop the
\* others: while the call has not returned some step is possible, and when
\* it returns every task has run, one request was made per identifier, and
\* every future was collected.
C2_ScraperAllAttempted ==
    /\ sc_pc \in {"collect", "sleep"} => ENABLED NextScraper
    /\ sc_pc = "returned" =>
           /\ \A i \in 1..Len(sc_task) : sc_task[i] = "finished"
           /\ Len(sc_yielded) = Len(sc_codes)
           /\ \A c \in Ids : Count(sc_requests, c) = Count(sc_codes, c)

\* C3: every identifier that failed has an outcome {code, error} in the
\* results of the complete event.
C3_FailureOutcomeInResults ==
    \A w \in Workers :
        (pc[w] = "done" /\ codes[w].kind = "list") =>
            \A i \in 1..(Len(events[w]) - 1) :
                HasError(events[w][i]) =>
                    \E j \in 1..Len(FinalResults(w)) :
                        FinalResults(w)[j] =
                            [code |-> events[w][i].code,
                             error |-> events[w][i].error]

\* C4: the stream is progress events followed by one complete event: a
\* complete event is the last line and the generator has returned when it is
\* there, no line but the last is anything else than a progress event, and a
\* finished stream ends with the complete event.
C4_StreamShape ==
    \A w \in Workers :
        /\ \A i \in 1..Len(events[w]) :
               /\ events[w][i].type \in {"progress", "complete"}
               /\ events[w][i].type = "complete" =>
                      (i = Len(events[w]) /\ pc[w] = "done")
        /\ pc[w] = "done" =>
               /\ Len(events[w]) >= 1
               /\ events[w][Len(events[w])].type = "complete"

\* C4 witness: a finished stream with a success and a failure in it.
C4_Witness ==
    \E w \in Workers :
        /\ pc[w] = "done"
        /\ Len(events[w]) >= 3
        /\ \E i, j \in 1..(Len(events[w]) - 1) :
               HasError(events[w][i]) /\ ~HasError(events[w][j])

\* C5: an identifier found in the cache when it is looked up is not fetched:
\* the lookup goes on to the store with the cached record as the course, the
\* store appends that record to the results, fetch_course is called only
\* from the fetch position, and that position is entered only on a miss.
C5_CacheShortCircuit ==
    [][\A w \in Workers :
          /\ (/\ pc[w] = "lookup"
              /\ attempted'[w] # attempted[w]
              /\ Hashable(CurCode(w))
              /\ Truthy(CacheGet(course_cache, CurCode(w))))
                 => /\ pc'[w] = "store"
                    /\ course'[w] = CacheGet(course_cache, CurCode(w))
                    /\ fetched'[w] = fetched[w]
          /\ (pc[w] = "store" /\ pc'[w] # "store")
                 => /\ results'[w] = Append(results[w], course[w])
                    /\ fetched'[w] = fetched[w]
          /\ (fetched'[w] # fetched[w] /\ pc'[w] # "idle")
                 => /\ pc[w] = "fetch"
                    /\ fetched'[w] = Append(fetched[w], CurCode(w))
          /\ (pc'[w] = "fetch" /\ pc[w] # "fetch")
                 => /\ pc[w] = "lookup"
                    /\ Hashable(CurCode(w))
                    /\ ~Truthy(CacheGet(course_cache, CurCode(w)))
      ]_vars

\* C5 witness: a thread about to store a record it took from the cache, in a
\* request that has fetched nothing.
C5_Witness ==
    \E w \in Workers :
        /\ pc[w] = "store"
        /\ fetched[w] = <<>>
        /\ Truthy(course[w])
        /\ course[w] = CacheGet(course_cache, CurCode(w))

\* C6: the step in which a fetch or extraction fails leaves the cache as it
\* was: an identifier absent before the failure is absent after it.
C6_FailureNotCached ==
    [][\A w \in Workers :
          (/\ pc[w] = "fetch"
           /\ Len(events'[w]) > Len(events[w])
           /\ HasError(events'[w][Len(events[w]) + 1]))
              => /\ course_cache' = course_cache
                 /\ ~Truthy(CacheGet(course_cache, CurCode(w)))
                        => ~Truthy(CacheGet(course_cache', CurCode(w)))
      ]_vars

\* C6 witness: an identifier that failed and, later in the same request, was
\* fetched again and succeeded.
C6_Witness ==
    \E w \in Workers :
        \E i, j \in 1..Len(events[w]) :
            /\ i < j
            /\ HasError(events[w][i])
            /\ events[w][j].type = "progress"
            /\ ~HasError(events[w][j])
            /\ events[w][j].code = events[w][i].code
            /\ Count(fetched[w], events[w][i].code) >= 2
            /\ Truthy(CacheGet(course_cache, events[w][i].code))

\* C7: no two threads are fetching the same identifier at the same time.
C7_NoRedundantFetch ==
    \A w1, w2 \in Workers :
        (w1 # w2 /\ pc[w1] = "fetch" /\ pc[w2] = "fetch") =>
            CurCode(w1) # CurCode(w2)

\* C8: a cache entry, once there, never changes and is never removed.
C8_CacheEntryImmutable ==
    [][\A c \in Ids :
          Truthy(CacheGet(course_cache, c)) =>
              CacheGet(course_cache', c) = CacheGet(course_cache, c)
      ]_vars

\* C9: a malformed request body gets the single error response: nothing is
\* fetched, no identifier is processed and no line is streamed.
C9_MalformedRejected ==
    \A w \in Workers :
        (pc[w] # "idle" /\ Malformed(body[w])) =>
            /\ response[w] = "error500"
            /\ events[w] = <<>>
            /\ attempted[w] = <<>>
            /\ fetched[w] = <<>>

\* C10: one progress event per list position: while the k-th identifier is
\* being processed k-1 progress events are out, after the last identifier
\* len(L) of them are, a finished stream has len(L) of them before the
\* complete event, and the k-th carries L[k] and total = len(L).
C10_ProgressPerPosition ==
    \A w \in Workers :
        Streaming(w) =>
            /\ pc[w] \in {"lookup", "fetch", "store"} =>
                   Len(events[w]) = idx[w] - 1
            /\ pc[w] = "complete" => Len(events[w]) = PyLen(codes[w])
            /\ pc[w] = "done" => Len(events[w]) = PyLen(codes[w]) + 1
            /\ \A k \in 1..Len(events[w]) :
                   k <= PyLen(codes[w]) =>
                       /\ events[w][k].type = "progress"
                       /\ events[w][k].code = codes[w].items[k]
                       /\ events[w][k].total = PyLen(codes[w])

\* C10 witness: a finished stream of MaxLen identifiers, one of which failed.
C10_Witness ==
    \E w \in Workers :
        /\ pc[w] = "done"
        /\ PyLen(codes[w]) = MaxLen
        /\ Len(events[w]) = MaxLen + 1
        /\ \E i, j \in 1..MaxLen :
               HasError(events[w][i]) /\ ~HasError(events[w][j])

\* Task i of the pool is in the state st.
TaskIs(i, st) == i \in 1..Len(sc_task) /\ sc_task[i] = st

\* C11: the tasks of a batch are submitted together, that is, in list order
\* and every one of them before the collecting loop starts and before any
\* result is collected; at no time more than max_workers tasks are running;
\* and every task submitted is eventually run and finished.
C11_BoundedPool ==
    /\ [](/\ Cardinality(Running) <= sc_max_workers
          /\ Len(sc_task) <= Len(sc_codes)
          /\ sc_pc \in {"collect", "sleep", "returned"} =>
                 Len(sc_task) = Len(sc_codes))
    /\ [][Len(sc_yielded') > Len(sc_yielded) =>
              Len(sc_task) = Len(sc_codes)]_vars
    /\ \A i \in 1..MaxScraperLen :
           TaskIs(i, "queued") ~> TaskIs(i, "finished")

\* C11 witness: every worker of the pool is busy and a task is waiting.
C11_Witness ==
    /\ Cardinality(Running) = sc_max_workers
    /\ \E i \in 1..Len(sc_task) : sc_task[i] = "queued"

\* C17: time.sleep(request_delay) is called once for each future collected,
\* and while the collecting thread sleeps the pool goes on: a running task
\* can finish and, with a worker free, the oldest queued task can start.
C17_DelayLocal ==
    /\ sc_sleeps = Len(sc_yielded)
    /\ sc_pc = "sleep" => sc_sleeps >= 1
    /\ sc_pc = "returned" => sc_sleeps = Len(sc_codes)
    /\ sc_pc = "sleep" =>
           \A i \in 1..Len(sc_task) :
               /\ sc_task[i] = "running" => ENABLED task_finish(i)
               /\ (/\ sc_task[i] = "queued"
                   /\ \A j \in 1..(i - 1) : sc_task[j] # "queued"
                   /\ Cardinality(Running) < sc_max_workers)
                      => ENABLED task_start(i)

\* C17 witness: the collecting thread sleeps after a result while another
\* task is running and one more is ready to start, or has started since.
C17_Witness ==
    /\ sc_pc = "sleep"
    /\ sc_sleeps = 1
    /\ \E i \in 1..Len(sc_task) : sc_task[i] \in {"queued", "running"}

\* The document has no <em> whose text starts with 'Requisite'.
NoRequisiteMarker(soup) ==
    \A i \in 1..Len(soup.ems) : ~StartsWithRequisite(soup.ems[i])

\* C12 as stated: without requisite marker the requisites of the record are
\* the placeholder "None specified", and the field is never absent or null.
C12_PlaceholderDefault ==
    ex_pc = "parsed" =>
        /\ "requisites" \in DOMAIN ex_record
        /\ ex_record.requisites \in Seq(STRING)
        /\ NoRequisiteMarker(ex_soup) =>
               ex_record.requisites = <<"None", "specified">>

\* C12, amended: without requisite marker the requisites of the record are
\* the empty string; the field is never absent or null.
C12_EmptyDefault ==
    ex_pc = "parsed" =>
        /\ "requisites" \in DOMAIN ex_record
        /\ ex_record.requisites \in Seq(STRING)
        /\ NoRequisiteMarker(ex_soup) => ex_record.requisites = EmptyString

\* C12 witness: a parsed document with an <em> that is no requisite marker.
C12_Witness ==
    /\ ex_pc = "parsed"
    /\ Len(ex_soup.ems) >= 1
    /\ ex_soup.ems[1] = <<"48023">>
    /\ NoRequisiteMarker(ex_soup)
    /\ ex_record.requisites = EmptyString

\* The rows of the learning-outcome table that have both cells.
HasBothCells(row) == row.th.found /\ row.td.found
OutcomeInput(soup) ==
    IF ~soup.slo.found THEN <<>> ELSE SelectSeq(soup.slo.rows, HasBothCells)
FirstRowWith(rows, text) ==
    CHOOSE i \in 1..Len(rows) :
        /\ rows[i].td.text = text
        /\ \A j \in 1..(i - 1) : rows[j].td.text # text

\* C13: the learning outcomes have pairwise distinct text; the texts are
\* those of the rows; they stand in the order of their first occurrences and
\* each carries the number of its first occurrence.
C13_OutcomesDeduplicated ==
    ex_pc = "parsed" =>
        LET rows == OutcomeInput(ex_soup)
            out == ex_record.learning_outcomes
        IN  /\ \A a, b \in 1..Len(out) : a # b => out[a].text # out[b].text
            /\ {out[a].text : a \in 1..Len(out)} =
                   {rows[i].td.text : i \in 1..Len(rows)}
            /\ \A a, b \in 1..Len(out) :
                   a < b => FirstRowWith(rows, out[a].text)
                                < FirstRowWith(rows, out[b].text)
            /\ \A a \in 1..Len(out) :
                   out[a].no =
                       RStrip(rows[FirstRowWith(rows, out[a].text)].th.text, ".")

\* C13 witness: rows x, y, x with numbers 1., 2, 2. give two outcomes, the
\* first with number 1.
C13_Witness ==
    /\ ex_pc = "parsed"
    /\ ex_soup.slo.found
    /\ Len(ex_soup.slo.rows) = 3
    /\ ex_soup.slo.rows[1] = Row(Cell(<<"1", ".">>), Cell("x"))
    /\ ex_soup.slo.rows[2] = Row(Cell(<<"2">>), Cell("y"))
    /\ ex_soup.slo.rows[3] = Row(Cell(<<"2", ".">>), Cell("x"))
    /\ Len(ex_record.learning_outcomes) = 2
    /\ ex_record.learning_outcomes[1] = [no |-> <<"1">>, text |-> "x"]

\* The positions strictly between the Assessment heading and the next h3
\* (or the end of the document); empty without Assessment heading.
AssessmentRegion(soup) ==
    LET s == _find_section(soup, "Assessment")
        later == {i \in (s + 1)..Len(soup.nodes) : soup.nodes[i].name = "h3"}
        e == IF later = {} THEN Len(soup.nodes) + 1
             ELSE CHOOSE i \in later : \A j \in later : i <= j
    IN  IF s = 0 THEN {} ELSE (s + 1)..(e - 1)
TaskHeadings(soup) ==
    {i \in AssessmentRegion(soup) : soup.nodes[i].name = "h4"}
\* The position in the task list of the task opened by the h4 at i.
TaskOf(soup, i) == Cardinality({j \in TaskHeadings(soup) : j <= i})

\* C14: the task list has one task per h4 between the Assessment heading and
\* the next h3 or the end of the document, in document order; the open task
\* is emitted at either end, and no h4 behind the next h3 makes a task.
C14_TaskPerHeading ==
    ex_pc = "parsed" =>
        /\ Len(ex_record.assessment) = Cardinality(TaskHeadings(ex_soup))
        /\ \A i \in TaskHeadings(ex_soup) :
               ex_record.assessment[TaskOf(ex_soup, i)].title
                   = ex_soup.nodes[i].text

\* C14 witness: Assessment, h4, h3, h4: one task, that of the first h4.
C14_Witness ==
    /\ ex_pc = "parsed"
    /\ Len(ex_soup.nodes) = 4
    /\ ex_soup.nodes[1] = H3(<<"Assessment">>)
    /\ ex_soup.nodes[2] = H4(<<"T1">>)
    /\ ex_soup.nodes[3] = H3(<<"Other">>)
    /\ ex_soup.nodes[4] = H4(<<"T2">>)
    /\ Len(ex_record.assessment) = 1
    /\ ex_record.assessment[1].title = <<"T1">>

IsDetailsTable(node) ==
    /\ node.name = "table"
    /\ \E k \in 1..Len(node.class) : node.class[k] = "assessmentTaskTable"

\* C15: when an h4 is followed by another h4 with no details table between
\* them, the task of the first is emitted with its title and empty details;
\* the rows of a details table behind the second h4 are in the details of
\* the second task and not in those of the first.
C15_EmptyDetailsTask ==
    ex_pc = "parsed" =>
        \A i, j \in TaskHeadings(ex_soup) :
            (/\ i < j
             /\ \A m \in (i + 1)..(j - 1) :
                    /\ ex_soup.nodes[m].name # "h4"
                    /\ ~IsDetailsTable(ex_soup.nodes[m]))
            => /\ TaskOf(ex_soup, j) <= Len(ex_record.assessment)
               /\ ex_record.assessment[TaskOf(ex_soup, i)].title
                      = ex_soup.nodes[i].text
               /\ DOMAIN ex_record.assessment[TaskOf(ex_soup, i)].details = {}
               /\ \A m \in AssessmentRegion(ex_soup) :
                      (/\ m > j
                       /\ TaskOf(ex_soup, m) = TaskOf(ex_soup, j)
                       /\ IsDetailsTable(ex_soup.nodes[m]))
                      => \A k \in 1..Len(ex_soup.nodes[m].rows) :
                             HasBothCells(ex_soup.nodes[m].rows[k]) =>
                                 RStrip(ex_soup.nodes[m].rows[k].th.text, ":")
                                     \in DOMAIN ex_record.assessment
                                             [TaskOf(ex_soup, j)].details

\* C15 witness: Assessment, h4, h4, details table: two tasks, the first with
\* empty details, the second with the row of the table.
C15_Witness ==
    /\ ex_pc = "parsed"
    /\ Len(ex_soup.nodes) = 4
    /\ ex_soup.nodes[1] = H3(<<"Assessment">>)
    /\ ex_soup.nodes[2] = H4(<<"T1">>)
    /\ ex_soup.nodes[3] = H4(<<"T2">>)
    /\ ex_soup.nodes[4] = Table(<<"assessmentTaskTable">>,
                                <<Row(Cell(<<"Type", ":">>), Cell("v1"))>>)
    /\ Len(ex_record.assessment) = 2
    /\ DOMAIN ex_record.assessment[1].details = {}
    /\ ex_record.assessment[2].details[<<"Type">>] = "v1"

\* C16: the stream is incremental: while the identifier at position i+1 is
\* looked up, fetched or stored, the progress events of the positions 1..i
\* are already out, each with its identifier; no identifier is attempted
\* before the event of the one before it is emitted.
C16_Incremental ==
    \A w \in Workers :
        /\ Len(attempted[w]) <= Len(events[w]) + 1
        /\ pc[w] \in {"lookup", "fetch", "store"} =>
               /\ Len(events[w]) >= idx[w] - 1
               /\ \A i \in 1..(idx[w] - 1) :
                      /\ events[w][i].type = "progress"
                      /\ events[w][i].code = codes[w].items[i]

\* C16 witness: the fetch of the second identifier is in flight and the
\* progress event of the first is out.
C16_Witness ==
    \E w \in Workers :
        /\ pc[w] = "fetch"
        /\ idx[w] = 2
        /\ Len(events[w]) = 1
        /\ events[w][1].code = codes[w].items[1]

\* The progress events of a stream that report a failure of identifier c.
ErrorEvents(w, c) ==
    {k \in 1..Len(events[w]) : HasError(events[w][k]) /\ events[w][k].code = c}

\* C18: a failed fetch is not retried: in a request fetch_course is called
\* for an identifier at most as often as the identifier was looked up, hence
\* at most as often as it occurs in the list; the step in which a fetch fails
\* makes exactly one call and leaves the identifier; and every failure
\* reported for a string identifier stands for one call (an element that is
\* a list fails in the lookup, with no call).
C18_NoRetry ==
    /\ [](\A w \in Workers : \A c \in Ids :
              /\ Count(fetched[w], c) <= Count(attempted[w], c)
              /\ Streaming(w) =>
                     /\ Count(attempted[w], c) <= Count(codes[w].items, c)
                     /\ Cardinality(ErrorEvents(w, c)) <= Count(fetched[w], c))
    /\ [][\A w \in Workers :
             (pc[w] = "fetch" /\ fetched'[w] # fetched[w]) =>
                 /\ fetched'[w] = Append(fetched[w], CurCode(w))
                 /\ pc'[w] # "fetch"
                 /\ Len(events'[w]) > Len(events[w])
                        => (idx'[w] # idx[w] \/ pc'[w] = "complete")
         ]_vars

\* C18 witness: a finished request in which an identifier that occurs once
\* failed and was fetched once, with other identifiers after it.
C18_Witness ==
    \E w \in Workers : \E c \in Ids :
        /\ pc[w] = "done"
        /\ PyLen(codes[w]) >= 2
        /\ codes[w].items[1] = c
        /\ Count(codes[w].items, c) = 1
        /\ HasError(events[w][1])
        /\ Count(fetched[w], c) = 1

\* The value of completed carried by the progress event before the k-th.
PrevCompleted(w, k) == IF k = 1 THEN 0 ELSE events[w][k - 1].completed

\* C19: completed counts the successes: it is the length of results and at
\* most total; a success event carries the previous value plus one, a failure
\* event the previous value; a finished batch with a failure in it ends its
\* progress events with completed < total.
C19_CompletedCountsSuccesses ==
    \A w \in Workers :
        /\ completed[w] = Len(results[w])
        /\ completed[w] <= total[w]
        /\ \A k \in 1..Len(events[w]) :
               events[w][k].type = "progress" =>
                   /\ events[w][k].completed =
                          PrevCompleted(w, k) + (IF HasError(events[w][k]) THEN 0 ELSE 1)
                   /\ events[w][k].completed <= completed[w]
        /\ (/\ pc[w] = "done"
            /\ \E k \in 1..Len(events[w]) : HasError(events[w][k]))
               => events[w][Len(events[w]) - 1].completed < total[w]

\* C19 witness: a finished batch of two, a success and then a failure: the
\* events carry 1, 1 and total is 2.
C19_Witness ==
    \E w \in Workers :
        /\ pc[w] = "done"
        /\ total[w] = 2
        /\ Len(events[w]) = 3
        /\ ~HasError(events[w][1])
        /\ HasError(events[w][2])
        /\ events[w][1].completed = 1
        /\ events[w][2].completed = 1

====
